---- MODULE Spec2Model ----
(***************************************************************************)
(* obsidian-runny: the None-filtering parameter container (ParamDict, in   *)
(* mappings/param_dict.py and in containers.py), the URI formatter         *)
(* (uri_handling.py) and the command pipeline that launches the URI.       *)
(*                                                                         *)
(* Python values are records [t, b, n, s]: t is the type name, b the bool  *)
(* payload, n the int payload, s the characters of a str or Path.  A str   *)
(* is a sequence of one-character strings, so that percent-encoding works  *)
(* on characters.  A dict is the sequence of its <<key, value>> entries in *)
(* iteration order, keys unique.                                           *)
(***************************************************************************)
EXTENDS Integers, Sequences, FiniteSets, TLC

VARIABLES
    obj,        \* class of the live ParamDict instance, or "none"
    self,       \* entries of the instance, in iteration order
    raised,     \* exception the last operation raised, or "None"
    last,       \* the last operation with its arguments and the state before it
    uri,        \* the last URI format_uri returned (characters)
    pc,         \* position of the command invocation
    f_locals,   \* local variables of the running command handler
    launched,   \* URIs handed to platform_uri_opener, in call order
    platform,   \* the machine: its operating system, and whether xdg-open runs
    opener      \* class of the module's platform_uri_opener, "unset" before load

vars == <<obj, self, raised, last, uri, pc, f_locals, launched, platform, opener>>

-----------------------------------------------------------------------------
(* Bounds *)

MaxPairs == 2       \* longest pair list / mapping given to a constructor
MaxEntries == 2     \* most entries of a mapping given to the formatter alone

-----------------------------------------------------------------------------
(* Python values *)

None == [t |-> "NoneType", b |-> FALSE, n |-> 0, s |-> <<>>]
BoolV(x) == [t |-> "bool", b |-> x, n |-> 0, s |-> <<>>]
IntV(i) == [t |-> "int", b |-> FALSE, n |-> i, s |-> <<>>]
StrV(chars) == [t |-> "str", b |-> FALSE, n |-> 0, s |-> chars]
PathV(chars) == [t |-> "Path", b |-> FALSE, n |-> 0, s |-> chars]
\* a member of a StrEnum: an instance of a subclass of str
StrEnumV(chars) == [t |-> "StrEnum", b |-> FALSE, n |-> 0, s |-> chars]

\* type(x) is str: a member of a str subclass is refused
Mutant_IsStr_exact_type(x) == x.t = "str"

\* isinstance(x, str)
IsStr(x) == x.t \in {"str", "StrEnum"}

\* str(x)
PyStr(x) ==
    CASE x.t = "str" -> x.s
      [] x.t = "StrEnum" -> x.s
      [] x.t = "Path" -> x.s
      [] x.t = "NoneType" -> <<"N", "o", "n", "e">>
      [] x.t = "bool" -> IF x.b THEN <<"T", "r", "u", "e">>
                         ELSE <<"F", "a", "l", "s", "e">>
      [] x.t = "int" -> IF x.n = 0 THEN <<"0">> ELSE <<"1">>

\* x == y as dict lookup sees it: bool is an int, True == 1, False == 0
PyEq(x, y) ==
    IF x.t \in {"bool", "int"} /\ y.t \in {"bool", "int"}
    THEN (IF x.t = "bool" THEN (IF x.b THEN 1 ELSE 0) ELSE x.n)
       = (IF y.t = "bool" THEN (IF y.b THEN 1 ELSE 0) ELSE y.n)
    ELSE x = y

-----------------------------------------------------------------------------
(* dict: entries in insertion order *)

dict_keys(d) == [i \in 1..Len(d) |-> d[i][1]]

dict_contains(d, k) == \E i \in 1..Len(d) : PyEq(d[i][1], k)

dict_getitem(d, k) == d[CHOOSE i \in 1..Len(d) : PyEq(d[i][1], k)][2]

\* an existing key keeps its position (and its key object), a new one goes last
dict_setitem(d, k, v) ==
    IF dict_contains(d, k)
    THEN [i \in 1..Len(d) |-> IF PyEq(d[i][1], k) THEN <<d[i][1], v>> ELSE d[i]]
    ELSE Append(d, <<k, v>>)

dict_delitem(d, k) == SelectSeq(d, LAMBDA e : ~PyEq(e[1], k))

-----------------------------------------------------------------------------
(* mappings/iteration/__init__.py *)

\* An argument that is read as pairs: kind is "Mapping", "Iterable" or
\* "NotIterable"; items are its entries (a Mapping) or its elements.
Mapping(items) == [kind |-> "Mapping", items |-> items]
Iterable(items) == [kind |-> "Iterable", items |-> items]
NotIterable == [kind |-> "NotIterable", items |-> <<>>]

\* index of the first element that does not unpack to two items, 0 if none
FirstBadPair(items) ==
    IF \E i \in 1..Len(items) : Len(items[i]) # 2
    THEN CHOOSE i \in 1..Len(items) :
            /\ Len(items[i]) # 2
            /\ \A j \in 1..(i - 1) : Len(items[j]) = 2
    ELSE 0

\* a generator that iterates a mapping itself, so that it meets the keys
Mutant_iter_as_pairs_no_items(iterable) ==
    IF iterable.kind = "Mapping"
    THEN [pairs |-> <<>>,
          raised |-> IF iterable.items = <<>> THEN "None" ELSE "ValueError"]
    ELSE IF iterable.kind = "NotIterable"
    THEN [pairs |-> <<>>, raised |-> "TypeError"]
    ELSE IF FirstBadPair(iterable.items) = 0
    THEN [pairs |-> iterable.items, raised |-> "None"]
    ELSE [pairs |-> SubSeq(iterable.items, 1, FirstBadPair(iterable.items) - 1),
          raised |-> "ValueError"]

\* the pairs the generator yields and the exception that ends it, if any
iter_as_pairs(iterable) ==
    IF iterable.kind = "Mapping"
    THEN [pairs |-> iterable.items, raised |-> "None"]
    ELSE IF iterable.kind = "NotIterable"
    THEN [pairs |-> <<>>, raised |-> "TypeError"]
    ELSE IF FirstBadPair(iterable.items) = 0
    THEN [pairs |-> iterable.items, raised |-> "None"]
    ELSE [pairs |-> SubSeq(iterable.items, 1, FirstBadPair(iterable.items) - 1),
          raised |-> "ValueError"]

-----------------------------------------------------------------------------
(* mappings/iteration/keygrabs.py *)

\* check_key of per_key: the new seen set, or the KeyError it raises
check_key(seen, source, k, require) ==
    IF k \in seen
    THEN [seen |-> seen, raised |-> "DuplicateKeyError"]
    ELSE IF require
    THEN IF dict_contains(source, k)
         THEN [seen |-> seen \cup {k}, raised |-> "None"]
         ELSE [seen |-> seen, raised |-> "MissingKeyError"]
    ELSE [seen |-> seen, raised |-> "None"]

RECURSIVE CheckKeys(_, _, _, _, _)
\* a validation loop of per_key over keys, from index i on
CheckKeys(seen, source, keys, i, require) ==
    IF i > Len(keys)
    THEN [seen |-> seen, raised |-> "None"]
    ELSE LET c == check_key(seen, source, keys[i], require)
         IN  IF c.raised # "None"
             THEN c
             ELSE CheckKeys(c.seen, source, keys, i + 1, require)

\* action(source, k) for operator.getitem and for pop_item
ApplyAction(action, source, k) ==
    IF ~dict_contains(source, k)
    THEN [value |-> None, source |-> source, raised |-> "KeyError"]
    ELSE [value |-> dict_getitem(source, k),
          source |-> IF action = "pop_item" THEN dict_delitem(source, k) ELSE source,
          raised |-> "None"]

RECURSIVE CopyKeys(_, _, _, _, _)
\* updates[k] = action(source, k) for the keys of to_copy_as_is, from i on
CopyKeys(action, updates, source, keys, i) ==
    IF i > Len(keys)
    THEN [updates |-> updates, source |-> source, raised |-> "None"]
    ELSE LET a == ApplyAction(action, source, keys[i])
         IN  IF a.raised # "None"
             THEN [updates |-> updates, source |-> a.source, raised |-> a.raised]
             ELSE CopyKeys(action, dict_setitem(updates, keys[i], a.value),
                           a.source, keys, i + 1)

RECURSIVE CopyDefaults(_, _, _, _, _)
\* the loop over defaults_dict.items(), from entry i on
CopyDefaults(action, updates, source, defaults_dict, i) ==
    IF i > Len(defaults_dict)
    THEN [updates |-> updates, source |-> source, raised |-> "None"]
    ELSE IF dict_contains(source, defaults_dict[i][1])
    THEN LET a == ApplyAction(action, source, defaults_dict[i][1])
         IN  CopyDefaults(action, dict_setitem(updates, defaults_dict[i][1], a.value),
                          a.source, defaults_dict, i + 1)
    ELSE CopyDefaults(action,
                      dict_setitem(updates, defaults_dict[i][1], defaults_dict[i][2]),
                      source, defaults_dict, i + 1)

RECURSIVE dict_update(_, _, _)
\* d.update(entries), from entry i on
dict_update(d, entries, i) ==
    IF i > Len(entries)
    THEN d
    ELSE dict_update(dict_setitem(d, entries[i][1], entries[i][2]), entries, i + 1)

\* dict(defaults): the dict, or the error of an argument that holds no pairs
dict_of(defaults) ==
    IF defaults.kind = "NotIterable"
    THEN [d |-> <<>>, raised |-> "TypeError"]
    ELSE IF defaults.kind = "Iterable" /\ FirstBadPair(defaults.items) # 0
    THEN [d |-> <<>>, raised |-> "ValueError"]
    ELSE [d |-> dict_update(<<>>, defaults.items, 1), raised |-> "None"]

\* no destination was passed
NoDestination == [given |-> FALSE, d |-> <<>>]

\* the returned mapping, the source and the destination after the call, and
\* the exception raised, if any
per_key(action, source, required, optional, defaults, destination) ==
    LET unchanged(exc) == [result |-> <<>>, source |-> source,
                           destination |-> destination, raised |-> exc]
        req == CheckKeys({}, source, required, 1, TRUE)
        opt == CheckKeys(req.seen, source, optional, 1, FALSE)
        dd == dict_of(defaults)
        dft == CheckKeys(opt.seen, source, dict_keys(dd.d), 1, TRUE)
        copied == CopyKeys(action, <<>>, source, required \o optional, 1)
        filled == CopyDefaults(action, copied.updates, copied.source, dd.d, 1)
    IN  IF req.raised # "None" THEN unchanged(req.raised)
        ELSE IF opt.raised # "None" THEN unchanged(opt.raised)
        ELSE IF dd.raised # "None" THEN unchanged(dd.raised)
        ELSE IF dft.raised # "None" THEN unchanged(dft.raised)
        ELSE IF copied.raised # "None"
        THEN [result |-> <<>>, source |-> copied.source,
              destination |-> destination, raised |-> copied.raised]
        ELSE IF ~destination.given
        THEN [result |-> filled.updates, source |-> filled.source,
              destination |-> destination, raised |-> "None"]
        ELSE [result |-> dict_update(destination.d, filled.updates, 1),
              source |-> filled.source,
              destination |-> [given |-> TRUE,
                               d |-> dict_update(destination.d, filled.updates, 1)],
              raised |-> "None"]

get_keys(source, required, optional, defaults, destination) ==
    per_key("getitem", source, required, optional, defaults, destination)

pop_keys(source, required, optional, defaults, destination) ==
    per_key("pop_item", source, required, optional, defaults, destination)

-----------------------------------------------------------------------------
(* mappings/param_dict.py *)

_as_dict_args(args, kwargs) ==
    IF Len(args) > 0 /\ Len(kwargs) > 0
    THEN [pairs |-> <<>>, raised |-> "TypeError"]
    ELSE IF Len(args) = 0 /\ Len(kwargs) > 0
    THEN iter_as_pairs(Mapping(kwargs))
    ELSE IF Len(args) > 0
    THEN iter_as_pairs(args[1])
    ELSE iter_as_pairs(Iterable(<<>>))

\* an assignment that removes the key first, so the key moves to the end
Mutant_setitem_moves_to_end(d, k, v) ==
    IF v # None
    THEN Append(dict_delitem(d, k), <<k, v>>)
    ELSE dict_delitem(d, k)

\* the condition of containers.py: None is stored under an absent key
Mutant_setitem_none_absent_stored(d, k, v) ==
    IF v = None /\ dict_contains(d, k)
    THEN dict_delitem(d, k)
    ELSE dict_setitem(d, k, v)

\* no test for None at all: every value is stored
Mutant_setitem_always_stores(d, k, v) == dict_setitem(d, k, v)

\* the removal tests the stored value's truth instead of the key's presence
Mutant_setitem_none_keeps_falsy(d, k, v) ==
    IF v # None
    THEN dict_setitem(d, k, v)
    ELSE IF dict_contains(d, k)
            /\ dict_getitem(d, k) \notin {BoolV(FALSE), IntV(0), StrV(<<>>)}
    THEN dict_delitem(d, k)
    ELSE d

ParamDict__setitem__(d, k, v) ==
    IF v # None
    THEN dict_setitem(d, k, v)
    ELSE IF dict_contains(d, k)
    THEN dict_delitem(d, k)
    ELSE d

RECURSIVE Mutant_StorePairs_assigns_none(_, _, _)
\* the loop without its None test: a None pair is assigned like any other
Mutant_StorePairs_assigns_none(d, pairs, i) ==
    IF i > Len(pairs)
    THEN d
    ELSE Mutant_StorePairs_assigns_none(
            ParamDict__setitem__(d, pairs[i][1], pairs[i][2]), pairs, i + 1)

RECURSIVE StorePairs(_, _, _)
\* the loop of _update_core over the pairs it was given, from index i on
StorePairs(d, pairs, i) ==
    IF i > Len(pairs)
    THEN d
    ELSE IF pairs[i][2] = None
    THEN StorePairs(d, pairs, i + 1)
    ELSE StorePairs(ParamDict__setitem__(d, pairs[i][1], pairs[i][2]), pairs, i + 1)

ParamDict_update_core(d, args, kwargs) ==
    LET src == _as_dict_args(args, kwargs)
    IN  [self |-> StorePairs(d, src.pairs, 1), raised |-> src.raised]

ParamDict__init__(args, kwargs) == ParamDict_update_core(<<>>, args, kwargs)

\* ParamDict.as_instance(other): other is [cls, source]
ParamDict_as_instance(other) ==
    IF other.cls = "mappings.param_dict.ParamDict"
    THEN [self |-> other.source.items, raised |-> "None"]
    ELSE IF other.source.kind = "NotIterable"
    THEN [self |-> <<>>, raised |-> "TypeError"]
    ELSE ParamDict__init__(<<other.source>>, <<>>)

-----------------------------------------------------------------------------
(* containers.py *)

Containers_ParamDict__setitem__(d, k, v) ==
    IF v = None /\ dict_contains(d, k)
    THEN dict_delitem(d, k)
    ELSE dict_setitem(d, k, v)

RECURSIVE Containers_StorePairs(_, _, _)
Containers_StorePairs(d, pairs, i) ==
    IF i > Len(pairs)
    THEN d
    ELSE IF pairs[i][2] = None
    THEN Containers_StorePairs(d, pairs, i + 1)
    ELSE Containers_StorePairs(
            Containers_ParamDict__setitem__(d, pairs[i][1], pairs[i][2]),
            pairs, i + 1)

Containers_ParamDict__init__(args, kwargs) ==
    IF Len(args) = 0
    THEN [self |-> Containers_StorePairs(<<>>, kwargs, 1), raised |-> "None"]
    ELSE IF Len(args) = 1 /\ Len(kwargs) > 0
    THEN [self |-> <<>>, raised |-> "TypeError"]
    ELSE IF Len(args) = 1
    THEN IF args[1].kind = "NotIterable"
         THEN [self |-> <<>>, raised |-> "TypeError"]
         ELSE LET bad == IF args[1].kind = "Mapping" THEN 0
                         ELSE FirstBadPair(args[1].items)
                  good == IF bad = 0 THEN args[1].items
                          ELSE SubSeq(args[1].items, 1, bad - 1)
              IN  [self |-> Containers_StorePairs(<<>>, good, 1),
                   raised |-> IF bad = 0 THEN "None" ELSE "ValueError"]
    ELSE [self |-> <<>>, raised |-> "TypeError"]

-----------------------------------------------------------------------------
(* urllib.parse.quote, as uri_handling.py imports it (urlquote) *)

_ALWAYS_SAFE ==
    {"A", "B", "C", "D", "E", "F", "G", "H", "I", "J", "K", "L", "M",
     "N", "O", "P", "Q", "R", "S", "T", "U", "V", "W", "X", "Y", "Z",
     "a", "b", "c", "d", "e", "f", "g", "h", "i", "j", "k", "l", "m",
     "n", "o", "p", "q", "r", "s", "t", "u", "v", "w", "x", "y", "z",
     "0", "1", "2", "3", "4", "5", "6", "7", "8", "9", "_", ".", "-", "~"}

\* the default of quote's safe argument
QuoteSafe == _ALWAYS_SAFE \cup {"/"}

\* %XX of each UTF-8 byte of the other characters strings are built from
PercentHex ==
    [c \in {" ", "&", "=", "?", "%", ":", "#"} |->
        CASE c = " " -> <<"%", "2", "0">>
          [] c = "&" -> <<"%", "2", "6">>
          [] c = "=" -> <<"%", "3", "D">>
          [] c = "?" -> <<"%", "3", "F">>
          [] c = "%" -> <<"%", "2", "5">>
          [] c = ":" -> <<"%", "3", "A">>
          [] c = "#" -> <<"%", "2", "3">>]

RECURSIVE QuoteChars(_, _)
QuoteChars(chars, i) ==
    IF i > Len(chars)
    THEN <<>>
    ELSE (IF chars[i] \in QuoteSafe THEN <<chars[i]>> ELSE PercentHex[chars[i]])
         \o QuoteChars(chars, i + 1)

\* quote(x): characters of the result, or the TypeError of a non-str argument
urlquote(x) ==
    IF IsStr(x)
    THEN [text |-> QuoteChars(x.s, 1), raised |-> "None"]
    ELSE [text |-> <<>>, raised |-> "TypeError"]

-----------------------------------------------------------------------------
(* uri_handling.py: formatting *)

_keys_are_bool ==
    {StrV(<<"c", "l", "i", "p", "b", "o", "a", "r", "d">>),
     StrV(<<"s", "i", "l", "e", "n", "t">>),
     StrV(<<"o", "v", "e", "r", "w", "r", "i", "t", "e">>)}

\* v in _bool2str
In_bool2str(v) == PyEq(v, BoolV(TRUE)) \/ PyEq(v, BoolV(FALSE))

\* the value's own string form instead of the table's
Mutant_bool2str_native(v) == PyStr(v)

\* _bool2str[v]
_bool2str(v) ==
    IF PyEq(v, BoolV(TRUE)) THEN <<"t", "r", "u", "e">>
    ELSE <<"f", "a", "l", "s", "e">>

format_param_pair(k, v) ==
    LET qk == urlquote(k)
    IN  IF qk.raised # "None"
        THEN [text |-> <<>>, raised |-> qk.raised]
        ELSE IF k \in _keys_are_bool
        THEN IF ~In_bool2str(v)
             THEN [text |-> <<>>, raised |-> "TypeError"]
             ELSE [text |-> qk.text \o <<"=">> \o _bool2str(v), raised |-> "None"]
        ELSE [text |-> qk.text \o <<"=">> \o urlquote(StrV(PyStr(v))).text,
              raised |-> "None"]

RECURSIVE FormatFrom(_, _)
\* the loop of format_parameters from entry i on, joined by "&"
FormatFrom(parameters, i) ==
    IF i > Len(parameters)
    THEN [text |-> <<>>, raised |-> "None"]
    ELSE IF ~IsStr(parameters[i][1])
    THEN [text |-> <<>>, raised |-> "TypeError"]
    ELSE LET encoded == format_param_pair(parameters[i][1], parameters[i][2])
             rest == FormatFrom(parameters, i + 1)
         IN  IF encoded.raised # "None"
             THEN [text |-> <<>>, raised |-> encoded.raised]
             ELSE IF rest.raised # "None"
             THEN [text |-> <<>>, raised |-> rest.raised]
             ELSE [text |-> encoded.text
                            \o (IF i < Len(parameters) THEN <<"&">> ELSE <<>>)
                            \o rest.text,
                   raised |-> "None"]

\* entries whose key is no str are left out instead of refused
Mutant_format_parameters_skips_non_str(parameters) ==
    FormatFrom(SelectSeq(parameters, LAMBDA e : IsStr(e[1])), 1)

format_parameters(parameters) == FormatFrom(parameters, 1)

\* the "?" is appended whether or not there are parameters
Mutant_format_uri_always_query(protocol, resource, parameters) ==
    LET query == format_parameters(parameters)
    IN  IF ~IsStr(protocol) \/ ~IsStr(resource) \/ query.raised # "None"
        THEN [text |-> <<>>, raised |-> "TypeError"]
        ELSE [text |-> protocol.s \o <<":", "/", "/">> \o urlquote(resource).text
                       \o <<"?">> \o query.text,
              raised |-> "None"]

format_uri(protocol, resource, parameters) ==
    IF ~IsStr(protocol)
    THEN [text |-> <<>>, raised |-> "TypeError"]
    ELSE IF ~IsStr(resource)
    THEN [text |-> <<>>, raised |-> "TypeError"]
    ELSE LET head == protocol.s \o <<":", "/", "/">> \o urlquote(resource).text
             query == format_parameters(parameters)
         IN  IF Len(parameters) = 0
             THEN [text |-> head, raised |-> "None"]
             ELSE IF query.raised # "None"
             THEN [text |-> <<>>, raised |-> query.raised]
             ELSE [text |-> head \o <<"?">> \o query.text, raised |-> "None"]

-----------------------------------------------------------------------------
(* uri_handling.py: the launchers and the choice of platform_uri_opener *)

\* a machine: os names its operating system, xdg_open tells whether the
\* probe "xdg-open --help" exits with status 0 on it
Platform(os, xdg_open) == [os |-> os, xdg_open |-> xdg_open]

\* platform.system(): macOS reports the name of its kernel
platform_system(plat) == IF plat.os = "macOS" THEN "Darwin" ELSE plat.os

\* the module-level match statement: the launcher bound to
\* platform_uri_opener, or the exception that ends the import
uri_handling_load(plat) ==
    LET _plat_name == platform_system(plat)
    IN  IF _plat_name = "Windows"
        THEN [opener |-> "WindowsURIOpener", raised |-> "None"]
        ELSE IF _plat_name = "Mac"
        THEN [opener |-> "MacURIOpener", raised |-> "None"]
        ELSE IF plat.xdg_open
        THEN [opener |-> "XDGMimeURIOpener", raised |-> "None"]
        ELSE [opener |-> "unset", raised |-> "NotImplementedError"]

POSIX_REDIRECT_OUTPUT_TO_NULL == "> /dev/null 2>&1"

\* _pre_uri of each launcher class (XDGMimeURIOpener with hup = False)
_pre_uri(cls) ==
    IF cls = "XDGMimeURIOpener" THEN <<"nohup", "xdg-open">>
    ELSE IF cls = "WindowsURIOpener" THEN <<"Start">>
    ELSE <<"open -gja">>

\* _post_uri of each launcher class (XDGMimeURIOpener with log = False)
_post_uri(cls) ==
    IF cls = "XDGMimeURIOpener" THEN <<POSIX_REDIRECT_OUTPUT_TO_NULL>> ELSE <<>>

\* PlatformURIOpener.__call__: the parts of the command handed to
\* subprocess.run, the URI between double quotes, and the shell argument
PlatformURIOpener__call__(cls, u) ==
    [pre |-> _pre_uri(cls),
     quoted |-> <<"\"">> \o u \o <<"\"">>,
     post |-> _post_uri(cls),
     shell |-> cls = "XDGMimeURIOpener"]

\* the machine the container and the commands are exercised on
LoadedPlatform == Platform("Linux", TRUE)

-----------------------------------------------------------------------------
(* Inputs the operations are called with *)

S_obsidian == <<"o", "b", "s", "i", "d", "i", "a", "n">>
S_new == <<"n", "e", "w">>
S_vault == <<"v", "a", "u", "l", "t">>
S_silent == <<"s", "i", "l", "e", "n", "t">>
S_MyVault == <<"M", "y", " ", "V", "a", "u", "l", "t">>

\* two str keys, one of them boolean-designated, and a key that is no str
KeyPool == {StrV(S_vault), StrV(S_silent), IntV(1)}

ValuePool ==
    {None, BoolV(FALSE), BoolV(TRUE), IntV(0), StrV(<<>>), StrV(S_MyVault),
     StrV(<<"a", "&", "b", "=", "%">>)}

PairPool == {<<k, v>> : k \in KeyPool, v \in ValuePool}

SeqsUpTo(S, n) == UNION {[1..m -> S] : m \in 0..n}

UniqueKeys(items) ==
    \A i, j \in 1..Len(items) : i # j => ~PyEq(items[i][1], items[j][1])

\* positional sources: pair lists (a key may repeat), mappings, elements
\* that are no pairs, and an object that is not iterable
SourcePool ==
    {Iterable(x) : x \in SeqsUpTo(PairPool, MaxPairs)}
    \cup {Mapping(x) : x \in {y \in SeqsUpTo(PairPool, MaxPairs) : UniqueKeys(y)}}
    \cup {Iterable(<<<<StrV(S_vault), IntV(0)>>, <<StrV(S_silent)>>>>),
          Iterable(<<<<StrV(S_vault), IntV(0), IntV(0)>>>>),
          NotIterable}

SmallSourcePool ==
    {Iterable(x) : x \in SeqsUpTo(PairPool, 1)}
    \cup {Mapping(x) : x \in SeqsUpTo(PairPool, 1)}
    \cup {NotIterable}

\* keyword values: the keys are identifiers, so they are str and unique
KwargsPool ==
    {x \in SeqsUpTo({q \in PairPool : IsStr(q[1])}, MaxPairs) : UniqueKeys(x)}

SmallKwargsPool == {<<>>} \cup {<<<<StrV(S_vault), v>>>> : v \in ValuePool}

\* <<args, kwargs>> of a constructor call
CallPool ==
    {<<<<>>, kw>> : kw \in KwargsPool}
    \cup {<<<<src>>, kw>> : src \in SourcePool, kw \in SmallKwargsPool}
    \cup {<<<<s1, s2>>, kw>> : s1 \in SmallSourcePool, s2 \in SmallSourcePool,
                               kw \in {<<>>, <<<<StrV(S_vault), IntV(0)>>>>}}

ProtocolPool == {StrV(S_obsidian), IntV(1)}

ResourcePool == {StrV(S_new), StrV(<<"a", " ", "/", "?">>), IntV(0)}

ClassPool == {"mappings.param_dict.ParamDict", "containers.ParamDict"}

-----------------------------------------------------------------------------
(* The container and the formatter as a caller uses them *)

Init ==
    /\ obj = "none"
    /\ self = <<>>
    /\ raised = "None"
    /\ last = [op |-> "none"]
    /\ uri = <<>>
    /\ pc = "idle"
    /\ f_locals = <<>>
    /\ launched = <<>>
    /\ platform = LoadedPlatform
    /\ opener = uri_handling_load(LoadedPlatform).opener

\* p = cls(*args, **kwargs): the set is created fresh, before anything else
Construct ==
    /\ last.op = "none"
    /\ \E cls \in ClassPool, call \in CallPool :
        LET r == IF cls = "mappings.param_dict.ParamDict"
                 THEN ParamDict__init__(call[1], call[2])
                 ELSE Containers_ParamDict__init__(call[1], call[2])
        IN  /\ obj' = IF r.raised = "None" THEN cls ELSE "none"
            /\ self' = IF r.raised = "None" THEN r.self ELSE <<>>
            /\ raised' = r.raised
            /\ last' = [op |-> "__init__", cls |-> cls,
                        args |-> call[1], kwargs |-> call[2]]
    /\ UNCHANGED <<uri, pc, f_locals, launched, platform, opener>>

\* p[k] = v, by the caller that goes on to format the set
SetItem ==
    /\ obj # "none"
    /\ last.op # "format_uri"
    /\ \E k \in KeyPool, v \in ValuePool :
        /\ self' = IF obj = "mappings.param_dict.ParamDict"
                   THEN ParamDict__setitem__(self, k, v)
                   ELSE Containers_ParamDict__setitem__(self, k, v)
        /\ raised' = "None"
        /\ last' = [op |-> "__setitem__", k |-> k, v |-> v, pre |-> self]
    /\ UNCHANGED <<obj, uri, pc, f_locals, launched, platform, opener>>

\* format_uri(protocol, resource, p)
FormatURI ==
    /\ obj # "none"
    /\ \E protocol \in ProtocolPool, resource \in ResourcePool :
        LET r == format_uri(protocol, resource, self)
        IN  /\ uri' = r.text
            /\ raised' = r.raised
            /\ last' = [op |-> "format_uri", protocol |-> protocol,
                        resource |-> resource]
    /\ UNCHANGED <<obj, self, pc, f_locals, launched, platform, opener>>

Next == Construct \/ SetItem \/ FormatURI

Spec == Init /\ [][Next]_vars

-----------------------------------------------------------------------------
(* The formatter alone, on any mapping *)

S_clipboard == <<"c", "l", "i", "p", "b", "o", "a", "r", "d">>
S_overwrite == <<"o", "v", "e", "r", "w", "r", "i", "t", "e">>

\* the three boolean-designated keys, a plain key, a key with characters
\* to encode and a key that is no str
FormatKeyPool ==
    {StrV(S_vault), StrV(S_clipboard), StrV(S_silent), StrV(S_overwrite),
     StrV(<<"a", " ", "=">>), IntV(1)}

FormatMappingPool ==
    {x \in SeqsUpTo({<<k, v>> : k \in FormatKeyPool, v \in ValuePool}, MaxEntries) :
        UniqueKeys(x)}

InitFormat ==
    /\ obj = "dict"
    /\ self \in FormatMappingPool
    /\ raised = "None"
    /\ last = [op |-> "none"]
    /\ uri = <<>>
    /\ pc = "idle"
    /\ f_locals = <<>>
    /\ launched = <<>>
    /\ platform = LoadedPlatform
    /\ opener = uri_handling_load(LoadedPlatform).opener

NextFormat == FormatURI

SpecFormat == InitFormat /\ [][NextFormat]_vars

-----------------------------------------------------------------------------
(* __init__.py: the command handlers, and run_obsidian_uri_command *)

S_open == <<"o", "p", "e", "n">>
S_search == <<"s", "e", "a", "r", "c", "h">>
S_name == <<"n", "a", "m", "e">>
S_path == <<"p", "a", "t", "h">>
S_file == <<"f", "i", "l", "e">>
S_prepend == <<"p", "r", "e", "p", "e", "n", "d">>
S_append == <<"a", "p", "p", "e", "n", "d">>
S_query == <<"q", "u", "e", "r", "y">>
S_MyNote == <<"M", "y", " ", "N", "o", "t", "e">>
S_WARNING == <<"W", "A", "R", "N", "I", "N", "G">>

VAULT_ONLY == <<StrV(S_vault)>>
BASE_OPTIONS == VAULT_ONLY \o <<StrV(S_name)>>
SHARED_OPTIONS == BASE_OPTIONS \o <<StrV(S_path), StrV(S_file)>>
PREPEND_APPEND == SHARED_OPTIONS \o <<StrV(S_prepend), StrV(S_append)>>

\* a handler: its URI action, the keys it asks for, its parameters in
\* declaration order (the log level parameter "_" comes last in each)
note_open ==
    [op |-> "note_open", action |-> StrEnumV(S_open), required |-> PREPEND_APPEND,
     params |-> <<S_name, S_vault, S_path, S_file, S_prepend, S_append>>]

note_new ==
    [op |-> "note_new", action |-> StrEnumV(S_new), required |-> SHARED_OPTIONS,
     params |-> <<S_name, S_vault, S_path, S_file>>]

note_search ==
    [op |-> "note_search", action |-> StrEnumV(S_search),
     required |-> VAULT_ONLY \o <<StrV(S_query)>>,
     params |-> <<S_query, S_vault>>]

\* the values the command line can give a parameter: --file is a Path, the
\* others are str; every option but --name of "new" defaults to None
OptionValues(h, param) ==
    (IF param = S_file THEN {PathV(<<"/", "n", "/", "x", " ", "y", ".", "m", "d">>)}
     ELSE IF param = S_vault THEN {StrV(S_MyVault)}
     ELSE {StrV(S_MyNote)})
    \cup (IF h.op = "note_new" /\ param = S_name THEN {} ELSE {None})

InitRun ==
    /\ obj = "none"
    /\ self = <<>>
    /\ raised = "None"
    /\ last = [op |-> "none"]
    /\ uri = <<>>
    /\ pc = "idle"
    /\ f_locals = <<>>
    /\ launched = <<>>
    /\ platform = LoadedPlatform
    /\ opener = uri_handling_load(LoadedPlatform).opener

\* fail(exc): the exception leaves the handler, nothing else changes
Fails(exc) ==
    /\ pc' = "failed"
    /\ raised' = exc
    /\ UNCHANGED <<obj, self, last, uri, f_locals, launched, platform, opener>>

\* the command line calls one handler with its option values
Call ==
    /\ pc = "idle"
    /\ \E h \in {note_open, note_new, note_search} :
        \E vals \in [1..Len(h.params) ->
                        UNION {OptionValues(h, h.params[i]) : i \in 1..Len(h.params)}] :
            /\ \A i \in 1..Len(h.params) : vals[i] \in OptionValues(h, h.params[i])
            /\ f_locals' = [i \in 1..Len(h.params) |-> <<StrV(h.params[i]), vals[i]>>]
                           \o <<<<StrV(<<"_">>), StrV(S_WARNING)>>>>
            /\ last' = [op |-> h.op, action |-> h.action, required |-> h.required]
    /\ pc' = "run_command_from_locals"
    /\ UNCHANGED <<obj, self, raised, uri, launched, platform, opener>>

\* run_command_from_locals up to its call of run_obsidian_uri_command
run_command_from_locals ==
    /\ pc = "run_command_from_locals"
    /\ LET got == get_keys(f_locals, last.required, <<>>, Iterable(<<>>), NoDestination)
           built == ParamDict__init__(<<Mapping(got.result)>>, <<>>)
       IN  IF got.raised # "None"
           THEN Fails(got.raised)
           ELSE IF built.raised # "None"
           THEN Fails(built.raised)
           ELSE /\ obj' = "mappings.param_dict.ParamDict"
                /\ self' = built.self
                /\ pc' = "run_obsidian_uri_command"
                /\ UNCHANGED <<raised, last, uri, f_locals, launched, platform, opener>>

\* run_obsidian_uri_command up to its call of the launcher
run_obsidian_uri_command ==
    /\ pc = "run_obsidian_uri_command"
    /\ LET parameters == ParamDict_as_instance([cls |-> obj, source |-> Mapping(self)])
           r == format_uri(StrV(S_obsidian), last.action, parameters.self)
       IN  IF parameters.raised # "None"
           THEN Fails(parameters.raised)
           ELSE IF r.raised # "None"
           THEN Fails(r.raised)
           ELSE /\ uri' = r.text
                /\ pc' = "platform_uri_opener"
                /\ UNCHANGED <<obj, self, raised, last, f_locals, launched, platform, opener>>

\* platform_uri_opener(uri): the launcher is handed the URI
platform_uri_opener ==
    /\ pc = "platform_uri_opener"
    /\ launched' = Append(launched, uri)
    /\ pc' = "done"
    /\ UNCHANGED <<obj, self, raised, last, uri, f_locals, platform, opener>>

NextRun ==
    \/ Call
    \/ run_command_from_locals
    \/ run_obsidian_uri_command
    \/ platform_uri_opener

SpecRun == InitRun /\ [][NextRun]_vars

\* the code is synchronous and single-threaded: once run_obsidian_uri_command
\* is called, each of its steps is taken
SpecRunFair ==
    /\ SpecRun
    /\ WF_vars(run_obsidian_uri_command)
    /\ WF_vars(platform_uri_opener)

-----------------------------------------------------------------------------
(* tests/unit/containers/test_paramdict.py, tests/unit/test_containers.py *)

RECURSIVE SetNoneInTurn(_, _, _, _)
\* test_setting_deletes: p[k] = None for each key of keys in turn, from i on
SetNoneInTurn(cls, d, keys, i) ==
    IF i > Len(keys)
    THEN d
    ELSE SetNoneInTurn(cls,
            IF cls = "mappings.param_dict.ParamDict"
            THEN ParamDict__setitem__(d, keys[i], None)
            ELSE Containers_ParamDict__setitem__(d, keys[i], None),
            keys, i + 1)

-----------------------------------------------------------------------------
(* Properties of the container *)

IsMappingsParamDict == obj = "mappings.param_dict.ParamDict"

AssignedNone == last.op = "__setitem__" /\ last.v = None

\* d2 holds entries of d1 only, in the order they have in d1
KeepsOrderOf(d2, d1) ==
    \A a, b \in 1..Len(d2) :
        a < b => \E i, j \in 1..Len(d1) : i < j /\ d1[i] = d2[a] /\ d1[j] = d2[b]

\* C2: in the ParamDict of mappings/param_dict.py no entry has the value
\* None, after construction from any source and after any item assignments.
C2_NoNoneValue ==
    IsMappingsParamDict => \A i \in 1..Len(self) : self[i][2] # None

\* None was assigned to an absent key of a non-empty mappings ParamDict
C2_Witness ==
    /\ IsMappingsParamDict
    /\ AssignedNone
    /\ ~dict_contains(last.pre, last.k)
    /\ Len(last.pre) > 0

\* C3: assigning None to a key absent from a mappings ParamDict is a no-op:
\* same keys, same values, same iteration order, and the key is still absent.
C3_NoneToAbsentKeyIsNoOp ==
    (IsMappingsParamDict /\ AssignedNone /\ ~dict_contains(last.pre, last.k))
        => /\ self = last.pre
           /\ ~dict_contains(self, last.k)
           /\ raised = "None"

\* None was assigned to an absent key of a set that holds two other entries
C3_Witness ==
    /\ IsMappingsParamDict
    /\ AssignedNone
    /\ ~dict_contains(last.pre, last.k)
    /\ Len(last.pre) = 2
    /\ Len(self) = 2

\* C4: in both classes, assigning None to a present key removes exactly that
\* key whatever its value, keeps every other entry and their relative order;
\* assigning None to every present key in turn leaves the set empty.
C4_NoneToPresentKeyRemovesIt ==
    /\ (AssignedNone /\ dict_contains(last.pre, last.k))
        => /\ ~dict_contains(self, last.k)
           /\ Len(self) = Len(last.pre) - 1
           /\ \A i \in 1..Len(last.pre) :
                ~PyEq(last.pre[i][1], last.k)
                    => \E j \in 1..Len(self) : self[j] = last.pre[i]
           /\ KeepsOrderOf(self, last.pre)
    /\ obj # "none" => SetNoneInTurn(obj, self, dict_keys(self), 1) = <<>>

\* None was assigned to the middle key of three, which held False
C4_Witness ==
    /\ AssignedNone
    /\ Len(last.pre) = 3
    /\ PyEq(last.pre[2][1], last.k)
    /\ last.pre[2][2] = BoolV(FALSE)
    /\ Len(self) = 2
    /\ IsMappingsParamDict

Constructed == last.op = "__init__" /\ raised = "None"

\* the entries of the one source a constructor call was given
SourceEntries ==
    IF Len(last.args) = 0 THEN last.kwargs ELSE last.args[1].items

\* positions of the non-null entries of key k in a list of entries
NonNullAt(entries, k) ==
    {i \in 1..Len(entries) : PyEq(entries[i][1], k) /\ entries[i][2] # None}

\* C5 as stated: every key with a null-valued source entry is absent from
\* the constructed set and every non-null source entry is kept with its value.
C5_NullKeysAbsentOthersKept ==
    (Constructed /\ Len(last.args) <= 1)
        => \A i \in 1..Len(SourceEntries) :
            IF SourceEntries[i][2] = None
            THEN ~dict_contains(self, SourceEntries[i][1])
            ELSE /\ dict_contains(self, SourceEntries[i][1])
                 /\ dict_getitem(self, SourceEntries[i][1]) = SourceEntries[i][2]

\* C5 (amended): construction skips the null-valued pairs and stores the
\* others in order, so a key is absent exactly when all its source entries
\* are null, and a key with a non-null entry holds its last non-null value
\* (False, 0 and "" included); with unique keys exactly the null entries go.
C5_NullPairsSkipped ==
    (Constructed /\ Len(last.args) <= 1)
        => /\ \A k \in KeyPool :
                LET at == NonNullAt(SourceEntries, k)
                IN  IF at = {}
                    THEN ~dict_contains(self, k)
                    ELSE /\ dict_contains(self, k)
                         /\ dict_getitem(self, k)
                              = SourceEntries[CHOOSE i \in at : \A j \in at : j <= i][2]
           /\ UniqueKeys(SourceEntries)
                => self = SelectSeq(SourceEntries, LAMBDA e : e[2] # None)

\* a pair list gave a key a value and then None: the key is in the set
C5_Witness ==
    /\ Constructed
    /\ Len(last.args) = 1
    /\ last.args[1].kind = "Iterable"
    /\ Len(SourceEntries) = 2
    /\ PyEq(SourceEntries[1][1], SourceEntries[2][1])
    /\ SourceEntries[1][2] = BoolV(FALSE)
    /\ SourceEntries[2][2] = None
    /\ Len(self) = 1

\* C6: a positional source with keyword values raises TypeError, more than
\* one positional source raises TypeError, in both cases no instance is
\* produced; zero sources give an empty set.
C6_ZeroOrOneSource ==
    (last.op = "__init__" /\ last.cls = "mappings.param_dict.ParamDict")
        => /\ (Len(last.args) >= 1 /\ Len(last.kwargs) >= 1)
                => (raised = "TypeError" /\ obj = "none")
           /\ Len(last.args) > 1
                => (raised = "TypeError" /\ obj = "none")
           /\ (Len(last.args) = 0 /\ Len(last.kwargs) = 0)
                => (raised = "None" /\ obj = last.cls /\ self = <<>>)

HoldsNonStrKey(entries) == \E i \in 1..Len(entries) : ~IsStr(entries[i][1])

\* C7 as stated: a non-string key in a construction source or in an item
\* assignment fails with TypeError and the entry is not stored.
C7_NonStrKeyRefused ==
    /\ (last.op = "__setitem__" /\ ~IsStr(last.k))
        => (raised = "TypeError" /\ self = last.pre)
    /\ (last.op = "__init__" /\ Len(last.args) = 1 /\ Len(last.kwargs) = 0
            /\ last.args[1].kind # "NotIterable"
            /\ FirstBadPair(last.args[1].items) = 0
            /\ HoldsNonStrKey(last.args[1].items))
        => (raised = "TypeError" /\ obj = "none")

\* C7 (amended): ParamDict does not test its keys: a non-string key with a
\* non-null value is stored without error by construction and by item
\* assignment.  The TypeError comes from the formatter: formatting a set
\* that holds a non-string key raises TypeError and returns no URI.
C7_NonStrKeyRefusedByFormatter ==
    /\ (last.op = "__setitem__" /\ ~IsStr(last.k) /\ last.v # None)
        => /\ raised = "None"
           /\ dict_contains(self, last.k)
           /\ dict_getitem(self, last.k) = last.v
    /\ (Constructed /\ Len(last.args) = 1)
        => \A k \in KeyPool :
            (~IsStr(k) /\ NonNullAt(SourceEntries, k) # {})
                => dict_contains(self, k)
    /\ (last.op = "format_uri" /\ IsStr(last.protocol) /\ IsStr(last.resource)
            /\ HoldsNonStrKey(self))
        => (raised = "TypeError" /\ uri = <<>>)

\* a set whose last entry has a non-string key was formatted
C7_Witness ==
    /\ last.op = "format_uri"
    /\ IsStr(last.protocol)
    /\ IsStr(last.resource)
    /\ Len(self) = 2
    /\ IsStr(self[1][1])
    /\ ~IsStr(self[2][1])
    /\ raised = "TypeError"

-----------------------------------------------------------------------------
(* Reading a URI back *)

RECURSIVE Split(_, _)
\* the pieces of text between the occurrences of the character sep
Split(text, sep) ==
    IF \A i \in 1..Len(text) : text[i] # sep
    THEN <<text>>
    ELSE LET i == CHOOSE j \in 1..Len(text) :
                    text[j] = sep /\ \A h \in 1..(j - 1) : text[h] # sep
         IN  <<SubSeq(text, 1, i - 1)>> \o Split(SubSeq(text, i + 1, Len(text)), sep)

HexDigits ==
    {"0", "1", "2", "3", "4", "5", "6", "7", "8", "9", "A", "B", "C", "D", "E", "F"}

\* only unreserved characters, "/" and %XX escapes
IsPercentEncoded(text) ==
    \A i \in 1..Len(text) :
        \/ text[i] \in _ALWAYS_SAFE \cup {"/"}
        \/ /\ text[i] = "%"
           /\ i + 2 <= Len(text)
           /\ text[i + 1] \in HexDigits
           /\ text[i + 2] \in HexDigits

RECURSIVE Unquote(_)
\* percent-decoding
Unquote(text) ==
    IF Len(text) = 0
    THEN <<>>
    ELSE IF text[1] = "%" /\ Len(text) >= 3
            /\ \E c \in DOMAIN PercentHex : PercentHex[c] = SubSeq(text, 1, 3)
    THEN <<CHOOSE c \in DOMAIN PercentHex : PercentHex[c] = SubSeq(text, 1, 3)>>
         \o Unquote(SubSeq(text, 4, Len(text)))
    ELSE <<text[1]>> \o Unquote(Tail(text))

RECURSIVE Text(_)
\* the characters as one string
Text(chars) == IF Len(chars) = 0 THEN "" ELSE chars[1] \o Text(Tail(chars))

\* the key=value pieces of a URI, in order; none without a "?"
QueryPairs(text) ==
    LET parts == Split(text, "?")
    IN  IF Len(parts) < 2 THEN <<>> ELSE Split(parts[2], "&")

QueryKeys(text) ==
    [i \in 1..Len(QueryPairs(text)) |-> Unquote(Split(QueryPairs(text)[i], "=")[1])]

-----------------------------------------------------------------------------
(* Properties of the formatter *)

Overwrote ==
    /\ last.op = "__setitem__"
    /\ last.v # None
    /\ dict_contains(last.pre, last.k)

\* C8: assigning a non-null value to a present key overwrites its value,
\* keeps the key at its position and every other entry as it was, so a URI
\* formatted afterwards lists the keys in the order they were first inserted.
C8_OverwriteKeepsPosition ==
    Overwrote
        => /\ dict_keys(self) = dict_keys(last.pre)
           /\ dict_getitem(self, last.k) = last.v
           /\ \A i \in 1..Len(last.pre) :
                ~PyEq(last.pre[i][1], last.k) => self[i] = last.pre[i]
           /\ LET r == format_uri(StrV(S_obsidian), StrV(S_new), self)
              IN  r.raised = "None"
                    => QueryKeys(r.text)
                         = [i \in 1..Len(last.pre) |-> last.pre[i][1].s]

\* the first of two keys was given another value, and the set formats
C8_Witness ==
    /\ Overwrote
    /\ Len(last.pre) = 2
    /\ PyEq(last.pre[1][1], last.k)
    /\ last.pre[1][2] # last.v
    /\ format_uri(StrV(S_obsidian), StrV(S_new), self).raised = "None"

FormatCalled ==
    /\ last.op = "format_uri"
    /\ IsStr(last.protocol)
    /\ IsStr(last.resource)

BoolKeys == {S_clipboard, S_silent, S_overwrite}

\* C9: format_uri returns protocol + "://" + the percent-encoded resource,
\* then, if and only if the set is non-empty, "?" and one percent-encoded
\* key=value pair per entry, joined by "&", in the set's iteration order; it
\* returns nothing only in the TypeError cases of the formatter.
C9_UriShape ==
    FormatCalled
        => IF raised = "None"
           THEN LET head == last.protocol.s \o <<":", "/", "/">>
                    parts == Split(SubSeq(uri, Len(head) + 1, Len(uri)), "?")
                    pairs == QueryPairs(uri)
                IN  /\ SubSeq(uri, 1, Len(head)) = head
                    /\ Len(parts) = IF Len(self) = 0 THEN 1 ELSE 2
                    /\ IsPercentEncoded(parts[1])
                    /\ Unquote(parts[1]) = last.resource.s
                    /\ Len(pairs) = Len(self)
                    /\ \A i \in 1..Len(self) :
                        LET kv == Split(pairs[i], "=")
                        IN  /\ Len(kv) = 2
                            /\ IsPercentEncoded(kv[1])
                            /\ IsPercentEncoded(kv[2])
                            /\ Unquote(kv[1]) = self[i][1].s
                    /\ (last.protocol.s = S_obsidian /\ last.resource.s = S_new
                            /\ self = <<>>)
                        => Text(uri) = "obsidian://new"
                    /\ (last.protocol.s = S_obsidian /\ last.resource.s = S_new
                            /\ self = <<<<StrV(S_vault), StrV(S_MyVault)>>>>)
                        => Text(uri) = "obsidian://new?vault=My%20Vault"
           ELSE /\ raised = "TypeError"
                /\ uri = <<>>
                /\ \E i \in 1..Len(self) :
                    \/ ~IsStr(self[i][1])
                    \/ self[i][1].s \in BoolKeys /\ self[i][2].t \notin {"bool", "int"}

\* a set of two entries was formatted under a resource that needs encoding
C9_Witness ==
    /\ FormatCalled
    /\ raised = "None"
    /\ Len(self) = 2
    /\ last.resource.s = <<"a", " ", "/", "?">>
    /\ self[1][1].s = <<"a", " ", "=">>
    /\ self[1][2] = StrV(<<"a", "&", "b", "=", "%">>)
    /\ self[2][1].s = S_vault

\* C10: a boolean-designated key renders True as key=true and False as
\* key=false, never as True/False or 1/0; every other key renders as the
\* percent-encoded string representation of its value.
C10_BoolKeysRenderLowercase ==
    (FormatCalled /\ raised = "None")
        => \A i \in 1..Len(self) :
            LET k == self[i][1].s
                v == self[i][2]
                pair == QueryPairs(uri)[i]
                rendered == Split(pair, "=")[2]
            IN  IF k \in BoolKeys
                THEN /\ v = BoolV(TRUE) => Text(pair) = Text(k) \o "=true"
                     /\ v = BoolV(FALSE) => Text(pair) = Text(k) \o "=false"
                     /\ Text(rendered) \notin {"True", "False", "1", "0"}
                ELSE /\ IsPercentEncoded(rendered)
                     /\ Unquote(rendered) = PyStr(v)
                     /\ (k = S_vault /\ v = BoolV(FALSE)) => Text(pair) = "vault=False"
                     /\ (k = S_vault /\ v = StrV(S_MyVault))
                            => Text(pair) = "vault=My%20Vault"

\* overwrite=True and clipboard=False were formatted together
C10_Witness ==
    /\ FormatCalled
    /\ raised = "None"
    /\ self = <<<<StrV(S_overwrite), BoolV(TRUE)>>, <<StrV(S_clipboard), BoolV(FALSE)>>>>
    /\ Text(QueryPairs(uri)[1]) = "overwrite=true"

-----------------------------------------------------------------------------
(* Properties of the command pipeline *)

\* what the launcher has been handed so far
LaunchedOnceWithTheUri ==
    /\ pc # "failed"
    /\ Len(launched) = IF pc = "done" THEN 1 ELSE 0
    /\ pc = "done"
        => /\ launched = <<format_uri(StrV(S_obsidian), last.action, self).text>>
           /\ SubSeq(launched[1], 1, Len(S_obsidian) + 3) = S_obsidian \o <<":", "/", "/">>
           /\ QueryKeys(launched[1])
                = [i \in 1..Len(self) |-> self[i][1].s]
           /\ \A i \in 1..Len(self) :
                /\ self[i][2] # None
                /\ \E j \in 1..Len(f_locals) : f_locals[j] = self[i]

\* C1: a call of run_obsidian_uri_command with a string action and the
\* ParamDict a handler built does not fail before the launch, and hands the
\* launcher exactly one URI, format_uri("obsidian", action, parameters).
C1_RunsEndToEnd ==
    /\ []LaunchedOnceWithTheUri
    /\ (pc = "run_obsidian_uri_command") ~> (pc = "done")

\* "new" was run with a vault and a name, and its URI reached the launcher
C1_Witness ==
    /\ pc = "done"
    /\ last.op = "note_new"
    /\ Len(launched) = 1
    /\ Text(launched[1]) = "obsidian://new?vault=My%20Vault&name=My%20Note"

-----------------------------------------------------------------------------
(* Properties of format_param_pair's value check *)

\* C11: formatting a mapping in which a boolean-designated key (clipboard,
\* silent, overwrite) holds a value that is not a bool raises TypeError and
\* produces no URI.
C11_NonBoolValueRaises ==
    (/\ FormatCalled
     /\ \E i \in 1..Len(self) :
            /\ IsStr(self[i][1])
            /\ self[i][1].s \in BoolKeys
            /\ self[i][2].t # "bool")
        => /\ raised = "TypeError"
           /\ uri = <<>>

-----------------------------------------------------------------------------
(* iter_as_pairs alone, on any argument *)

\* elements an iterable may hold: pairs (None values and a key that is no
\* str among them), a two-character str, and elements of 0, 1 and 3 items
IterElementPool ==
    {<<k, v>> : k \in {StrV(S_vault), IntV(1)},
                v \in {None, IntV(0), StrV(S_MyVault)}}
    \cup {<<StrV(<<"a">>), StrV(<<"b">>)>>,
          <<>>,
          <<StrV(S_vault)>>,
          <<StrV(S_vault), IntV(0), IntV(0)>>}

IterablePool ==
    {Iterable(x) : x \in SeqsUpTo(IterElementPool, MaxPairs)}
    \cup {Mapping(x) : x \in {y \in SeqsUpTo(IterElementPool, MaxPairs) :
                                /\ \A i \in 1..Len(y) : Len(y[i]) = 2
                                /\ UniqueKeys(y)}}
    \cup {NotIterable}

\* list(iter_as_pairs(iterable)): the generator is run until it ends
IterAsPairs ==
    /\ last.op = "none"
    /\ \E iterable \in IterablePool :
        LET r == iter_as_pairs(iterable)
        IN  /\ raised' = r.raised
            /\ last' = [op |-> "iter_as_pairs", iterable |-> iterable,
                        yielded |-> r.pairs]
    /\ UNCHANGED <<obj, self, uri, pc, f_locals, launched, platform, opener>>

NextPairs == IterAsPairs

SpecPairs == Init /\ [][NextPairs]_vars

-----------------------------------------------------------------------------
(* per_key alone: get_keys and pop_keys on any arguments *)

MaxKeys == 2        \* longest required, optional and defaults argument

KeygrabKeyPool == {StrV(S_vault), StrV(S_silent)}

\* the source holds none, one or both of the keys
KeygrabSourcePool ==
    {<<>>,
     <<<<StrV(S_vault), IntV(0)>>>>,
     <<<<StrV(S_silent), IntV(0)>>>>,
     <<<<StrV(S_vault), IntV(0)>>, <<StrV(S_silent), IntV(0)>>>>}

\* required and optional: lists of keys, where a key may repeat
KeyListPool == SeqsUpTo(KeygrabKeyPool, MaxKeys)

\* defaults: a list of pairs, where a key may repeat, or a mapping
DefaultsPool ==
    {Iterable(x) :
        x \in SeqsUpTo({<<k, StrV(S_MyVault)>> : k \in KeygrabKeyPool}, MaxKeys)}
    \cup {Mapping(x) :
        x \in {y \in SeqsUpTo({<<k, StrV(S_MyVault)>> : k \in KeygrabKeyPool},
                              MaxKeys) : Len(y) > 0 /\ UniqueKeys(y)}}

\* destination: None, an empty dict, or a dict that holds an entry
DestinationPool ==
    {NoDestination,
     [given |-> TRUE, d |-> <<>>],
     [given |-> TRUE, d |-> <<<<StrV(S_silent), BoolV(TRUE)>>>>]}

\* get_keys(source, required, optional, defaults, destination), or pop_keys
PerKey ==
    /\ last.op = "none"
    /\ \E action \in {"getitem", "pop_item"}, source \in KeygrabSourcePool,
          required \in KeyListPool, optional \in KeyListPool,
          defaults \in DefaultsPool, destination \in DestinationPool :
        LET r == IF action = "getitem"
                 THEN get_keys(source, required, optional, defaults, destination)
                 ELSE pop_keys(source, required, optional, defaults, destination)
        IN  /\ raised' = r.raised
            /\ last' = [op |-> "per_key", action |-> action, source |-> source,
                        required |-> required, optional |-> optional,
                        defaults |-> defaults, destination |-> destination,
                        result |-> r.result, source_after |-> r.source,
                        destination_after |-> r.destination]
    /\ UNCHANGED <<obj, self, uri, pc, f_locals, launched, platform, opener>>

NextKeys == PerKey

SpecKeys == Init /\ [][NextKeys]_vars

-----------------------------------------------------------------------------
(* Properties of per_key *)

PerKeyCalled == last.op = "per_key"

\* the keys of the defaults argument, as written by the caller
DefaultKeys == [i \in 1..Len(last.defaults.items) |-> last.defaults.items[i][1]]

\* every key the call lists, in the order required, optional, defaults
ListedKeys == last.required \o last.optional \o DefaultKeys

Repeats(keys) == \E i, j \in 1..Len(keys) : i # j /\ keys[i] = keys[j]

AllIn(keys, d) == \A i \in 1..Len(keys) : dict_contains(d, keys[i])

\* C13: whenever a call of per_key (get_keys, pop_keys) raises, neither the
\* source nor the destination has been modified; with pop_keys no key has
\* been popped.
C13_RaiseLeavesMappingsAlone ==
    (PerKeyCalled /\ raised # "None")
        => /\ last.source_after = last.source
           /\ last.destination_after = last.destination

\* C14: in a call that is otherwise in order (every required and defaults
\* key is in the source, no key is repeated), an optional key absent from
\* the source is skipped: no error is raised and the key is not in the
\* result; an optional key present in the source appears with
\* action(source, key).
C14_AbsentOptionalSkipped ==
    (/\ PerKeyCalled
     /\ ~Repeats(ListedKeys)
     /\ AllIn(last.required, last.source)
     /\ AllIn(DefaultKeys, last.source))
        => /\ raised = "None"
           /\ \A i \in 1..Len(last.optional) :
                LET k == last.optional[i]
                IN  IF dict_contains(last.source, k)
                    THEN /\ dict_contains(last.result, k)
                         /\ dict_getitem(last.result, k) = dict_getitem(last.source, k)
                    ELSE dict_contains(last.result, k)
                            => dict_contains(last.destination.d, k)

\* C15: in a call that is otherwise in order (every required and optional
\* key is in the source, no key is repeated), every key of defaults is in
\* the result and no error is raised: with its default value when the
\* source lacks it, with action(source, key) when the source holds it.
C15_DefaultsFillAbsentKeys ==
    (/\ PerKeyCalled
     /\ ~Repeats(ListedKeys)
     /\ AllIn(last.required, last.source)
     /\ AllIn(last.optional, last.source))
        => /\ raised = "None"
           /\ \A i \in 1..Len(last.defaults.items) :
                LET k == last.defaults.items[i][1]
                IN  /\ dict_contains(last.result, k)
                    /\ dict_getitem(last.result, k)
                        = IF dict_contains(last.source, k)
                          THEN dict_getitem(last.source, k)
                          ELSE last.defaults.items[i][2]

\* C16: a call that repeats a key within or across required, optional and
\* defaults raises DuplicateKeyError before action is applied to any key
\* (stated for calls whose keys are all in the source, so that no missing
\* key is met first).
C16_RepeatedKeyRaises ==
    (/\ PerKeyCalled
     /\ Repeats(ListedKeys)
     /\ AllIn(ListedKeys, last.source))
        => /\ raised = "DuplicateKeyError"
           /\ last.source_after = last.source
           /\ last.destination_after = last.destination

-----------------------------------------------------------------------------
(* uri_handling loaded on any machine, and its launcher called *)

MaxLaunches == 2    \* most URIs handed to the launcher after a load

PlatformPool ==
    {Platform(os, x) : os \in {"Windows", "macOS", "Linux", "FreeBSD"},
                       x \in BOOLEAN}

\* URIs as format_uri returns them
LaunchUriPool ==
    {format_uri(StrV(S_obsidian), StrV(S_new), m).text :
        m \in {<<>>,
               <<<<StrV(S_vault), StrV(S_MyVault)>>>>,
               <<<<StrV(S_silent), BoolV(TRUE)>>>>,
               <<<<StrV(S_vault), StrV(S_MyVault)>>, <<StrV(S_silent), BoolV(FALSE)>>>>}}

InitLoad ==
    /\ obj = "none"
    /\ self = <<>>
    /\ raised = "None"
    /\ last = [op |-> "none"]
    /\ uri = <<>>
    /\ pc = "idle"
    /\ f_locals = <<>>
    /\ launched = <<>>
    /\ platform \in PlatformPool
    /\ opener = "unset"

\* import obsidian_runny.uri_handling: the match statement runs once
LoadModule ==
    /\ last.op = "none"
    /\ opener' = uri_handling_load(platform).opener
    /\ raised' = uri_handling_load(platform).raised
    /\ last' = [op |-> "import"]
    /\ UNCHANGED <<obj, self, uri, pc, f_locals, launched, platform>>

\* platform_uri_opener(u), by any caller of the loaded module
OpenURI ==
    /\ opener # "unset"
    /\ Len(launched) < MaxLaunches
    /\ \E u \in LaunchUriPool :
        /\ launched' = Append(launched, u)
        /\ last' = [op |-> "__call__", cmd |-> PlatformURIOpener__call__(opener, u)]
    /\ UNCHANGED <<obj, self, raised, uri, pc, f_locals, platform, opener>>

NextLoad == LoadModule \/ OpenURI

SpecLoad == InitLoad /\ [][NextLoad]_vars

\* C17: once uri_handling has been loaded the launcher is WindowsURIOpener
\* on Windows, MacURIOpener on macOS, and on every other platform
\* XDGMimeURIOpener when the xdg-open probe succeeds; otherwise loading
\* fails with NotImplementedError and no launcher is bound.  Calls of the
\* launcher do not change it.
C17_LauncherByPlatform ==
    (last.op # "none")
        => IF platform.os = "Windows"
           THEN opener = "WindowsURIOpener" /\ raised = "None"
           ELSE IF platform.os = "macOS"
           THEN opener = "MacURIOpener" /\ raised = "None"
           ELSE IF platform.xdg_open
           THEN opener = "XDGMimeURIOpener" /\ raised = "None"
           ELSE opener = "unset" /\ raised = "NotImplementedError"

====
